---- MODULE Spec2Model ----
(***************************************************************************)
(* Model of the text matching functions of hdx.utilities.text:             *)
(*   get_matching_text_in_strs, get_matching_text and                      *)
(*   get_matching_then_nonmatching_text.                                   *)
(*                                                                         *)
(* A Python str is a sequence of one-character strings.  Offsets are kept  *)
(* 0-based as in the source: the character s[i] of the source is s[i + 1]  *)
(* here, and the slice s[lo:hi] is Slice(s, lo, hi).                       *)
(***************************************************************************)
EXTENDS Integers, Sequences, FiniteSets, TLC

\* ------------------------------------------------------------------ bounds
\* Longest input string, longest input list and largest match_min_size drawn.
MaxLen == 3
MaxList == 3
MaxMinSize == 3

\* ------------------------------------------------------- python primitives
\* A local assignment x = value followed by the code F that reads x: value is
\* evaluated once and F sees the result.
Bind(value, F(_)) == CHOOSE r \in {F(x) : x \in {value}} : TRUE

\* s[lo:hi] for 0 <= lo and 0 <= hi: an offset past the end is the end
Slice(s, lo, hi) == SubSeq(s, lo + 1, IF hi > Len(s) THEN Len(s) ELSE hi)

\* c in chars, for a character c and a str chars
CharIn(c, chars) == \E n \in 1..Len(chars) : chars[n] = c

\* "".join(parts)
RECURSIVE Join(_)
Join(parts) == IF parts = <<>> THEN <<>> ELSE Head(parts) \o Join(Tail(parts))

\* s.find(sub, start): the lowest offset >= start where sub occurs in s, or -1
RECURSIVE Find(_, _, _)
Find(s, sub, start) ==
  IF start + Len(sub) > Len(s) THEN -1
  ELSE IF Slice(s, start, start + Len(sub)) = sub THEN start
  ELSE Find(s, sub, start + 1)

\* sub in s
Contains(s, sub) == Find(s, sub, 0) # -1

\* s.index(sub), for sub in s
Index(s, sub) == Find(s, sub, 0)

\* s.replace(old, ""): every non-overlapping occurrence of old, left to right,
\* is removed; replacing the empty string by the empty string changes nothing.
RECURSIVE ReplaceFrom(_, _, _)
ReplaceFrom(s, old, start) ==
  LET at == Find(s, old, start) IN
  IF at = -1 THEN Slice(s, start, Len(s))
  ELSE Slice(s, start, at) \o ReplaceFrom(s, old, at + Len(old))

Replace(s, old) == IF old = <<>> THEN s ELSE ReplaceFrom(s, old, 0)

\* ------------------------------------------------- difflib.SequenceMatcher
\* compare = difflib.SequenceMatcher(lambda x: x in ignore); set_seqs(a, b).
\* A matcher is the record [a, b, ignore]; b2j leaves out the junk elements
\* of b (autojunk only acts on sequences of 200 or more elements).
isbjunk(m, j) == CharIn(m.b[j + 1], m.ignore)

\* find_longest_match's newj2len[j] in row i: the length of the junk-free
\* run of equal elements ending at a[i], b[j] inside the window, 0 if none.
RECURSIVE j2len(_, _, _, _, _)
j2len(m, alo, blo, i, j) ==
  IF i < alo \/ j < blo THEN 0
  ELSE IF m.a[i + 1] # m.b[j + 1] \/ isbjunk(m, j) THEN 0
  ELSE j2len(m, alo, blo, i - 1, j - 1) + 1

\* The inner loop of find_longest_match, for j in b2j[a[i]]: the offsets j of
\* row i ascending, a strictly longer run replacing the best so far.
RECURSIVE ScanRow(_, _, _, _, _, _, _)
ScanRow(m, alo, blo, bhi, i, j, best) ==
  IF j >= bhi THEN best
  ELSE Bind(j2len(m, alo, blo, i, j), LAMBDA k :
       Bind(IF k > best.size
              THEN [i |-> i - k + 1, j |-> j - k + 1, size |-> k]
              ELSE best,
            LAMBDA better : ScanRow(m, alo, blo, bhi, i, j + 1, better)))

\* The outer loop of find_longest_match, for i in range(alo, ahi)
RECURSIVE ScanBest(_, _, _, _, _, _, _)
ScanBest(m, alo, ahi, blo, bhi, i, best) ==
  IF i >= ahi THEN best
  ELSE Bind(ScanRow(m, alo, blo, bhi, i, blo, best),
            LAMBDA better : ScanBest(m, alo, ahi, blo, bhi, i + 1, better))

\* The while loops that extend the match to the left: with junk = FALSE over
\* non-junk elements, with junk = TRUE over junk elements.
RECURSIVE ExtendLeft(_, _, _, _, _)
ExtendLeft(m, alo, blo, best, junk) ==
  IF /\ best.i > alo
     /\ best.j > blo
     /\ isbjunk(m, best.j - 1) = junk
     /\ m.a[best.i] = m.b[best.j]
  THEN Bind([i |-> best.i - 1, j |-> best.j - 1, size |-> best.size + 1],
            LAMBDA longer : ExtendLeft(m, alo, blo, longer, junk))
  ELSE best

\* The while loops that extend the match to the right.
RECURSIVE ExtendRight(_, _, _, _, _)
ExtendRight(m, ahi, bhi, best, junk) ==
  IF /\ best.i + best.size < ahi
     /\ best.j + best.size < bhi
     /\ isbjunk(m, best.j + best.size) = junk
     /\ m.a[best.i + best.size + 1] = m.b[best.j + best.size + 1]
  THEN Bind([best EXCEPT !.size = @ + 1],
            LAMBDA longer : ExtendRight(m, ahi, bhi, longer, junk))
  ELSE best

find_longest_match(m, alo, ahi, blo, bhi) ==
  Bind(ScanBest(m, alo, ahi, blo, bhi, alo,
                [i |-> alo, j |-> blo, size |-> 0]), LAMBDA scanned :
  Bind(ExtendLeft(m, alo, blo, scanned, FALSE), LAMBDA left1 :
  Bind(ExtendRight(m, ahi, bhi, left1, FALSE), LAMBDA right1 :
  Bind(ExtendLeft(m, alo, blo, right1, TRUE), LAMBDA left2 :
       ExtendRight(m, ahi, bhi, left2, TRUE)))))

\* The queue loop of get_matching_blocks: the queue is a stack of windows
\* <<alo, ahi, blo, bhi>>, popped from its end.
RECURSIVE QueueLoop(_, _, _)
QueueLoop(m, queue, blocks) ==
  IF queue = <<>> THEN blocks
  ELSE Bind(queue[Len(queue)], LAMBDA w :
       Bind(SubSeq(queue, 1, Len(queue) - 1), LAMBDA rest :
       Bind(find_longest_match(m, w[1], w[2], w[3], w[4]), LAMBDA x :
       Bind(IF w[1] < x.i /\ w[3] < x.j
              THEN Append(rest, <<w[1], x.i, w[3], x.j>>)
              ELSE rest, LAMBDA q1 :
       Bind(IF x.i + x.size < w[2] /\ x.j + x.size < w[4]
              THEN Append(q1, <<x.i + x.size, w[2], x.j + x.size, w[4]>>)
              ELSE q1, LAMBDA q2 :
       IF x.size # 0
       THEN Bind(Append(blocks, x), LAMBDA found : QueueLoop(m, q2, found))
       ELSE QueueLoop(m, rest, blocks))))))

\* Tuple order of Match(a, b, size)
BlockLess(x, y) ==
  \/ x.i < y.i
  \/ x.i = y.i /\ x.j < y.j
  \/ x.i = y.i /\ x.j = y.j /\ x.size < y.size

\* matching_blocks.sort()
RECURSIVE InsertBlock(_, _)
InsertBlock(sorted, x) ==
  IF sorted = <<>> THEN <<x>>
  ELSE IF BlockLess(x, Head(sorted)) THEN <<x>> \o sorted
  ELSE <<Head(sorted)>> \o InsertBlock(Tail(sorted), x)

RECURSIVE SortBlocks(_)
SortBlocks(blocks) ==
  IF blocks = <<>> THEN <<>>
  ELSE InsertBlock(SortBlocks(Tail(blocks)), Head(blocks))

\* The loop of get_matching_blocks that collapses adjacent equal blocks;
\* cur is the block (i1, j1, k1) being grown.
RECURSIVE Collapse(_, _, _)
Collapse(blocks, cur, non_adjacent) ==
  IF blocks = <<>>
  THEN IF cur.size # 0 THEN Append(non_adjacent, cur) ELSE non_adjacent
  ELSE Bind(Head(blocks), LAMBDA x :
       Bind(Tail(blocks), LAMBDA later :
       IF cur.i + cur.size = x.i /\ cur.j + cur.size = x.j
       THEN Bind([cur EXCEPT !.size = @ + x.size],
                 LAMBDA grown : Collapse(later, grown, non_adjacent))
       ELSE Bind(IF cur.size # 0 THEN Append(non_adjacent, cur)
                 ELSE non_adjacent,
                 LAMBDA kept : Collapse(later, x, kept))))

\* compare.get_matching_blocks(): the blocks in ascending order, then the
\* zero-length sentinel (len(a), len(b), 0).
get_matching_blocks(m) ==
  Bind(QueueLoop(m, << <<0, Len(m.a), 0, Len(m.b)>> >>, <<>>), LAMBDA found :
  Bind(SortBlocks(found), LAMBDA sorted :
       Append(Collapse(sorted, [i |-> 0, j |-> 0, size |-> 0], <<>>),
              [i |-> Len(m.a), j |-> Len(m.b), size |-> 0])))

\* --------------------------------------------- get_matching_text_in_strs
\* while len(text) != 0 and text[0] in end_characters: text = text[1:]
RECURSIVE StripLeading(_, _)
StripLeading(text, end_characters) ==
  IF Len(text) # 0 /\ CharIn(text[1], end_characters)
  THEN StripLeading(Tail(text), end_characters)
  ELSE text

\* while len(text) != 0 and text[-1] not in end_characters: text = text[:-1]
RECURSIVE StripTrailing(_, _)
StripTrailing(text, end_characters) ==
  IF Len(text) # 0 /\ ~CharIn(text[Len(text)], end_characters)
  THEN StripTrailing(SubSeq(text, 1, Len(text) - 1), end_characters)
  ELSE text

\* Mutant of TrimText: the fallback to the untrimmed text is left out
TrimTextNoFallback(text, end_characters) ==
  IF end_characters # <<>>
  THEN StripTrailing(StripLeading(text, end_characters), end_characters)
  ELSE text

\* The body of "if end_characters:" for one block's text
TrimText(text, end_characters) ==
  IF end_characters # <<>>
  THEN LET stripped == StripTrailing(StripLeading(text, end_characters),
                                     end_characters)
       IN  IF Len(stripped) = 0 THEN text ELSE stripped
  ELSE text

\* The text of one matching block, taken from a and trimmed
BlockText(a, match, end_characters) ==
  TrimText(Slice(a, match.i, match.i + match.size), end_characters)

\* Mutant of KeepText: the comparison written len(text) > match_min_size
KeepTextLonger(text, match_min_size) == Len(text) > match_min_size

\* if len(text) >= match_min_size: matching_text.append(text)
KeepText(text, match_min_size) == Len(text) >= match_min_size

RECURSIVE CollectTexts(_, _, _, _)
CollectTexts(a, blocks, match_min_size, end_characters) ==
  IF blocks = <<>> THEN <<>>
  ELSE Bind(BlockText(a, Head(blocks), end_characters), LAMBDA text :
       Bind(CollectTexts(a, Tail(blocks), match_min_size, end_characters),
            LAMBDA rest :
       IF KeepText(text, match_min_size) THEN <<text>> \o rest ELSE rest))

get_matching_text_in_strs(a, b, match_min_size, ignore, end_characters) ==
  Bind([a |-> a, b |-> b, ignore |-> ignore], LAMBDA compare :
  Bind(get_matching_blocks(compare), LAMBDA blocks :
       CollectTexts(a, blocks, match_min_size, end_characters)))

\* -------------------------------------- get_matching_then_nonmatching_text
\* s[-n:] for n >= 1: the last n characters of s, all of s when it is shorter
Suffix(s, n) == IF Len(s) <= n THEN s ELSE SubSeq(s, Len(s) - n + 1, Len(s))

\* The output list of one pairwise step: its pieces and, beside each piece,
\* what it is ("match", "separator", "new_a" or "new_b"); late holds the
\* remainders appended after the walk over the matching texts.
EmptyOutput == [pieces |-> <<>>, kinds |-> <<>>, late |-> {}]

AppendPiece(out, text, kind) ==
  [out EXCEPT !.pieces = Append(@, text), !.kinds = Append(@, kind)]

\* The inner function add_separator_if_needed(text_list)
add_separator_if_needed(separator, out) ==
  IF /\ separator # <<>>
     /\ Len(out.pieces) > 0
     /\ Suffix(out.pieces[Len(out.pieces)], Len(separator)) # separator
  THEN AppendPiece(out, separator, "separator")
  ELSE out

\* for text in result: new = new.replace(text, "")
RECURSIVE RemoveTexts(_, _)
RemoveTexts(s, result) ==
  IF result = <<>> THEN s
  ELSE Bind(Replace(s, Head(result)),
            LAMBDA removed : RemoveTexts(removed, Tail(result)))

\* pos_a and pos_b: where the remainder starts in its source, or combined_len
RemainderPos(source, remainder, combined_len) ==
  IF remainder # <<>> /\ Contains(source, remainder)
  THEN Index(source, remainder)
  ELSE combined_len

\* Mutant of BFirst: the comparison written pos_b >= pos_a
BFirstOrEqual(pos_a, pos_b) == pos_b >= pos_a

\* if pos_b > pos_a: text_1 is new_b, else text_1 is new_a
BFirst(pos_a, pos_b) == pos_b > pos_a

\* if text and pos >= pos_n: add_separator_if_needed(output);
\* output.append(text); pos += len(text); text = None.
\* w is the walk's state [out, pos, text_1, text_2]; an inserted text is <<>>.
\* Mutant of Place1: the comparison written pos > pos_1
Place1Past(w, separator, pos_1, kind_1) ==
  IF w.text_1 # <<>> /\ w.pos > pos_1
  THEN [w EXCEPT !.out = AppendPiece(add_separator_if_needed(separator, w.out),
                                     w.text_1, kind_1),
                 !.pos = @ + Len(w.text_1),
                 !.text_1 = <<>>]
  ELSE w

Place1(w, separator, pos_1, kind_1) ==
  IF w.text_1 # <<>> /\ w.pos >= pos_1
  THEN [w EXCEPT !.out = AppendPiece(add_separator_if_needed(separator, w.out),
                                     w.text_1, kind_1),
                 !.pos = @ + Len(w.text_1),
                 !.text_1 = <<>>]
  ELSE w

Place2(w, separator, pos_2, kind_2) ==
  IF w.text_2 # <<>> /\ w.pos >= pos_2
  THEN [w EXCEPT !.out = AppendPiece(add_separator_if_needed(separator, w.out),
                                     w.text_2, kind_2),
                 !.pos = @ + Len(w.text_2),
                 !.text_2 = <<>>]
  ELSE w

\* for text in result: output.append(text); pos += len(text); place text_1
\* and then text_2 when pos has reached their positions
RECURSIVE Walk(_, _, _, _, _, _, _)
Walk(result, w, separator, pos_1, kind_1, pos_2, kind_2) ==
  IF result = <<>> THEN w
  ELSE Bind(Head(result), LAMBDA text :
       Bind([w EXCEPT !.out = AppendPiece(@, text, "match"),
                      !.pos = @ + Len(text)], LAMBDA added :
       Bind(Place1(added, separator, pos_1, kind_1), LAMBDA placed_1 :
       Bind(Place2(placed_1, separator, pos_2, kind_2), LAMBDA placed_2 :
       Bind(Tail(result), LAMBDA later :
            Walk(later, placed_2, separator, pos_1, kind_1, pos_2, kind_2))))))

\* if text_n and pos_n == combined_len: append it after the walk
PlaceAtEnd(out, separator, text, pos_n, combined_len, kind) ==
  IF text # <<>> /\ pos_n = combined_len
  THEN [AppendPiece(add_separator_if_needed(separator, out), text, kind)
          EXCEPT !.late = @ \cup {kind}]
  ELSE out

\* One iteration of the loop of get_matching_then_nonmatching_text
MergeStep(a, b, separator, match_min_size, ignore, end_characters) ==
  Bind(Len(a) + Len(b), LAMBDA combined_len :
  Bind(get_matching_text_in_strs(a, b, match_min_size, ignore, end_characters),
       LAMBDA texts :
  Bind(RemoveTexts(a, texts), LAMBDA rem_a :
  Bind(RemoveTexts(b, texts), LAMBDA rem_b :
  Bind(RemainderPos(a, rem_a, combined_len), LAMBDA at_a :
  Bind(RemainderPos(b, rem_b, combined_len), LAMBDA at_b :
  Bind(BFirst(at_a, at_b), LAMBDA bfirst :
  Bind([text_1 |-> IF bfirst THEN rem_b ELSE rem_a,
        pos_1  |-> IF bfirst THEN at_b ELSE at_a,
        kind_1 |-> IF bfirst THEN "new_b" ELSE "new_a",
        text_2 |-> IF bfirst THEN rem_a ELSE rem_b,
        pos_2  |-> IF bfirst THEN at_a ELSE at_b,
        kind_2 |-> IF bfirst THEN "new_a" ELSE "new_b"], LAMBDA o :
  Bind(Walk(texts, [out |-> EmptyOutput, pos |-> 0,
                    text_1 |-> o.text_1, text_2 |-> o.text_2],
            separator, o.pos_1, o.kind_1, o.pos_2, o.kind_2), LAMBDA walked :
  Bind(PlaceAtEnd(walked.out, separator, walked.text_1, o.pos_1,
                  combined_len, o.kind_1), LAMBDA end_1 :
  Bind(PlaceAtEnd(end_1, separator, walked.text_2, o.pos_2,
                  combined_len, o.kind_2), LAMBDA end_2 :
       [result |-> texts, new_a |-> rem_a, new_b |-> rem_b,
        pos_a |-> at_a, pos_b |-> at_b, output |-> end_2])))))))))))

\* ------------------------------------------------------------------ inputs
Chars == {"x", "."}

RECURSIVE SeqsUpTo(_, _)
SeqsUpTo(S, n) ==
  IF n = 0 THEN {<<>>}
  ELSE LET shorter == SeqsUpTo(S, n - 1) IN
       shorter \cup {Append(s, e) : s \in {t \in shorter : Len(t) = n - 1}, e \in S}

Strings == SeqsUpTo(Chars, MaxLen)
StringLists == SeqsUpTo(Strings, MaxList)
MinSizes == 0..MaxMinSize
Ignores == {<<>>, <<"x">>}
EndCharacters == {<<>>, <<".">>}
Separators == {<<>>, <<".">>, <<"x", ".">>}

\* ------------------------------------------------------------------- state
VARIABLES
  fn,              \* the function called
  string_list, separator, match_min_size, ignore, end_characters,  \* arguments
  pc,              \* "start", "loop", "done" or "raised"
  i,               \* the loop variable: offset of the next string
  a,               \* the accumulator
  prev_a,          \* a at the start of the last iteration
  b,               \* string_list[i] of the last iteration
  result,          \* the matching texts of the last iteration
  new_a, new_b, pos_a, pos_b, output,  \* locals of the last merge iteration
  steps,           \* iterations run
  ret,             \* the value returned
  exc              \* the exception raised, "" when none

args == <<fn, string_list, separator, match_min_size, ignore, end_characters>>
locals == <<new_a, new_b, pos_a, pos_b, output>>
vars == <<args, pc, i, a, prev_a, b, result, locals, steps, ret, exc>>

InitLocals ==
  /\ pc = "start"
  /\ i = 0
  /\ a = <<>>
  /\ prev_a = <<>>
  /\ b = <<>>
  /\ result = <<>>
  /\ new_a = <<>>
  /\ new_b = <<>>
  /\ pos_a = 0
  /\ pos_b = 0
  /\ output = EmptyOutput
  /\ steps = 0
  /\ ret = <<>>
  /\ exc = ""

\* A call get_matching_text(string_list, match_min_size, ignore, end_characters)
InitMatching ==
  /\ fn = "get_matching_text"
  /\ string_list \in StringLists
  /\ separator = <<>>
  /\ match_min_size \in MinSizes
  /\ ignore \in Ignores
  /\ end_characters \in EndCharacters
  /\ InitLocals

\* A call get_matching_then_nonmatching_text(string_list, separator, ...)
InitMerging ==
  /\ fn = "get_matching_then_nonmatching_text"
  /\ string_list \in StringLists
  /\ separator \in Separators
  /\ match_min_size \in MinSizes
  /\ ignore \in Ignores
  /\ end_characters \in EndCharacters
  /\ InitLocals

\* The default of end_characters in get_matching_then_nonmatching_text
DefaultEndCharacters == <<".", "!", "\r", "\n">>

\* The call get_matching_then_nonmatching_text(["ABC-unique1", "ABC-unique2"],
\* separator="|", match_min_size=1), the other arguments at their defaults
ScenarioList ==
  << <<"A", "B", "C", "-", "u", "n", "i", "q", "u", "e", "1">>,
     <<"A", "B", "C", "-", "u", "n", "i", "q", "u", "e", "2">> >>

InitScenario ==
  /\ fn = "get_matching_then_nonmatching_text"
  /\ string_list = ScenarioList
  /\ separator = <<"|">>
  /\ match_min_size = 1
  /\ ignore = <<>>
  /\ end_characters = DefaultEndCharacters
  /\ InitLocals

Init == InitMatching \/ InitMerging \/ InitScenario

\* Mutant of FirstString: an empty list is defaulted to the empty string
FirstStringDefaulted ==
  /\ pc = "start"
  /\ pc' = "loop"
  /\ a' = IF Len(string_list) = 0 THEN <<>> ELSE string_list[1]
  /\ i' = 1
  /\ UNCHANGED <<args, prev_a, b, result, locals, steps, ret, exc>>

\* Mutant of FirstString: the loop written range(len(string_list))
FirstStringFromZero ==
  /\ pc = "start"
  /\ IF Len(string_list) = 0
     THEN /\ pc' = "raised"
          /\ exc' = "IndexError"
          /\ UNCHANGED <<i, a>>
     ELSE /\ pc' = "loop"
          /\ a' = string_list[1]
          /\ i' = 0
          /\ UNCHANGED exc
  /\ UNCHANGED <<args, prev_a, b, result, locals, steps, ret>>

\* a = string_list[0]: IndexError on an empty list
FirstString ==
  /\ pc = "start"
  /\ IF Len(string_list) = 0
     THEN /\ pc' = "raised"
          /\ exc' = "IndexError"
          /\ UNCHANGED <<i, a>>
     ELSE /\ pc' = "loop"
          /\ a' = string_list[1]
          /\ i' = 1
          /\ UNCHANGED exc
  /\ UNCHANGED <<args, prev_a, b, result, locals, steps, ret>>

\* Mutant of MatchingStep: every string is matched against string_list[0]
\* instead of the accumulator
MatchingStepFromFirst ==
  /\ pc = "loop"
  /\ fn = "get_matching_text"
  /\ i < Len(string_list)
  /\ b' = string_list[i + 1]
  /\ result' = get_matching_text_in_strs(string_list[1], b', match_min_size,
                                         ignore, end_characters)
  /\ a' = Join(result')
  /\ prev_a' = a
  /\ i' = i + 1
  /\ steps' = steps + 1
  /\ UNCHANGED <<args, pc, locals, ret, exc>>

\* One iteration of the loop of get_matching_text
MatchingStep ==
  /\ pc = "loop"
  /\ fn = "get_matching_text"
  /\ i < Len(string_list)
  /\ b' = string_list[i + 1]
  /\ result' = get_matching_text_in_strs(a, b', match_min_size, ignore,
                                         end_characters)
  /\ a' = Join(result')
  /\ prev_a' = a
  /\ i' = i + 1
  /\ steps' = steps + 1
  /\ UNCHANGED <<args, pc, locals, ret, exc>>

\* One iteration of the loop of get_matching_then_nonmatching_text
MergingStep ==
  /\ pc = "loop"
  /\ fn = "get_matching_then_nonmatching_text"
  /\ i < Len(string_list)
  /\ b' = string_list[i + 1]
  /\ \E s \in {MergeStep(a, b', separator, match_min_size, ignore,
                         end_characters)} :
       /\ result' = s.result
       /\ new_a' = s.new_a
       /\ new_b' = s.new_b
       /\ pos_a' = s.pos_a
       /\ pos_b' = s.pos_b
       /\ output' = s.output
       /\ a' = Join(s.output.pieces)
  /\ prev_a' = a
  /\ i' = i + 1
  /\ steps' = steps + 1
  /\ UNCHANGED <<args, pc, ret, exc>>

\* return a
Return ==
  /\ pc = "loop"
  /\ i >= Len(string_list)
  /\ pc' = "done"
  /\ ret' = a
  /\ UNCHANGED <<args, i, a, prev_a, b, result, locals, steps, exc>>

Next == FirstString \/ MatchingStep \/ MergingStep \/ Return

Spec == Init /\ [][Next]_vars

NextMatching == FirstString \/ MatchingStep \/ Return
SpecMatching == InitMatching /\ [][NextMatching]_vars

NextMerging == FirstString \/ MergingStep \/ Return
SpecMerging == (InitMerging \/ InitScenario) /\ [][NextMerging]_vars

\* ------------------------------------------------------------------ claims
Range(seq) == {seq[n] : n \in 1..Len(seq)}

EndsWith(s, suffix) ==
  /\ Len(s) >= Len(suffix)
  /\ SubSeq(s, Len(s) - Len(suffix) + 1, Len(s)) = suffix

\* A pairwise step of either function has run; prev_a and b are its inputs
MatchingStepDone == fn = "get_matching_text" /\ steps >= 1
MergingStepDone == fn = "get_matching_then_nonmatching_text" /\ steps >= 1

\* The remainder of that kind was put in the step's output, and where
Placed(kind) == \E n \in 1..Len(output.kinds) : output.kinds[n] = kind
PlaceOf(kind) == CHOOSE n \in 1..Len(output.kinds) : output.kinds[n] = kind

\* C1: in a merging step whose list of matching texts is empty no input text
\* is lost: the new accumulator is the whole of a followed by the whole of b,
\* with the separator between them (left out where a piece is empty or the
\* text before it already ends with the separator).
C1_NoMatchKeepsBothInputs ==
  (MergingStepDone /\ result = <<>>) =>
    \/ a = prev_a \o separator \o b
    \/ a = prev_a \o b /\ (prev_a = <<>> \/ b = <<>> \/ EndsWith(prev_a, separator))

\* C2 as stated: a call with an empty string_list ends in a ValueError.
C2_EmptyListRaisesValueError ==
  (string_list = <<>> /\ pc # "start") => (pc = "raised" /\ exc = "ValueError")

\* C2 as amended: a call of either function with an empty string_list returns
\* nothing; it ends in the IndexError of string_list[0], before any step.
C2_EmptyListRaisesIndexError ==
  /\ (string_list = <<>> /\ pc # "start") =>
       (pc = "raised" /\ exc = "IndexError" /\ steps = 0 /\ ret = <<>>)
  /\ (pc = "raised") => string_list = <<>>

\* C2 witness: get_matching_then_nonmatching_text([]) has raised
C2_Witness ==
  /\ fn = "get_matching_then_nonmatching_text"
  /\ string_list = <<>>
  /\ pc = "raised"

\* C3: when get_matching_text returns for two or more strings, every block
\* its result is joined from (the matching texts of the last step) occurs as
\* a contiguous substring of every input string, the first one included.
C3_BlocksOccurInEveryInput ==
  (fn = "get_matching_text" /\ pc = "done" /\ Len(string_list) >= 2) =>
    /\ ret = Join(result)
    /\ \A text \in Range(result) :
         \A n \in 1..Len(string_list) : Contains(string_list[n], text)

\* C4: in a merging step with a non-empty separator, the separator is never
\* inserted as the first piece of the output, nor when the output joined so
\* far already ends with the separator.  Stated for match_min_size >= 1,
\* where every piece of the output is a non-empty text.
C4_SeparatorNeverDoubled ==
  (MergingStepDone /\ separator # <<>> /\ match_min_size >= 1) =>
    \A n \in 1..Len(output.kinds) :
      output.kinds[n] = "separator" =>
        /\ n > 1
        /\ ~EndsWith(Join(SubSeq(output.pieces, 1, n - 1)), separator)

\* Both remainders of the last merging step are non-empty and in its output
BothPlaced ==
  /\ MergingStepDone
  /\ new_a # <<>>
  /\ new_b # <<>>
  /\ Placed("new_a")
  /\ Placed("new_b")

\* The two remainders were inserted at the same point: both after the walk,
\* or both during the walk with no matching text between them.
SamePoint ==
  LET lo == IF PlaceOf("new_a") < PlaceOf("new_b")
            THEN PlaceOf("new_a") ELSE PlaceOf("new_b")
      hi == IF PlaceOf("new_a") < PlaceOf("new_b")
            THEN PlaceOf("new_b") ELSE PlaceOf("new_a")
  IN  \/ output.late = {"new_a", "new_b"}
      \/ /\ output.late = {}
         /\ \A n \in (lo + 1)..(hi - 1) : output.kinds[n] # "match"

\* C5 as stated: with both remainders placed, the remainder of b comes first
\* when pos_b > pos_a and the remainder of a comes first otherwise.  Stated
\* for match_min_size >= 1, where every matching text is non-empty.
C5_OrderFollowsComparison ==
  (BothPlaced /\ match_min_size >= 1) =>
    IF pos_b > pos_a THEN PlaceOf("new_b") < PlaceOf("new_a")
    ELSE PlaceOf("new_a") < PlaceOf("new_b")

\* C5 as amended: with both remainders placed, on a tie pos_b = pos_a the
\* remainder of a comes first; when the positions differ, the remainder with
\* the larger position comes first exactly when both are inserted at the same
\* point (after the same matching text of the walk, or both after the walk);
\* otherwise the remainder with the smaller position was inserted earlier and
\* comes first.
C5_OrderOfRemainders ==
  BothPlaced =>
    /\ pos_b = pos_a => (PlaceOf("new_a") < PlaceOf("new_b") /\ SamePoint)
    /\ pos_b > pos_a => (PlaceOf("new_b") < PlaceOf("new_a") <=> SamePoint)
    /\ pos_b < pos_a => (PlaceOf("new_a") < PlaceOf("new_b") <=> SamePoint)

\* C5 witness: pos_b > pos_a, yet the remainder of a is placed before the
\* remainder of b
C5_Witness ==
  /\ BothPlaced
  /\ pos_b > pos_a
  /\ PlaceOf("new_a") < PlaceOf("new_b")
  /\ match_min_size >= 1

\* The matching blocks of the last step, and a block's text before trimming
LastBlocks == get_matching_blocks([a |-> prev_a, b |-> b, ignore |-> ignore])
RawText(match) == Slice(prev_a, match.i, match.i + match.size)
Trimmed(match) == BlockText(prev_a, match, end_characters)

\* C6 as stated: whatever end_characters is, a matching block of length
\* match_min_size - 1 is not in the output and a matching block of length
\* match_min_size is (as its text, trimmed if end_characters asks for it).
C6_MinSizeOnBlockLength ==
  MatchingStepDone =>
    \A n \in 1..Len(LastBlocks) :
      /\ LastBlocks[n].size = match_min_size - 1 =>
           RawText(LastBlocks[n]) \notin Range(result)
      /\ LastBlocks[n].size = match_min_size =>
           Trimmed(LastBlocks[n]) \in Range(result)

\* C6 as amended: the minimum size is compared with the length of the block's
\* text after trimming.  Every text in the output has at least match_min_size
\* characters, every block whose trimmed text has at least match_min_size
\* characters is in the output and no other is; with empty end_characters a
\* block of length match_min_size - 1 is left out and a block of length
\* match_min_size is kept.
C6_MinSizeOnTrimmedText ==
  MatchingStepDone =>
    /\ \A n \in 1..Len(result) : Len(result[n]) >= match_min_size
    /\ \A n \in 1..Len(LastBlocks) :
         Len(Trimmed(LastBlocks[n])) >= match_min_size =>
           Trimmed(LastBlocks[n]) \in Range(result)
    /\ Len(result) =
         Cardinality({n \in 1..Len(LastBlocks) :
                        Len(Trimmed(LastBlocks[n])) >= match_min_size})
    /\ end_characters = <<>> =>
         \A n \in 1..Len(LastBlocks) :
           /\ LastBlocks[n].size = match_min_size - 1 =>
                RawText(LastBlocks[n]) \notin Range(result)
           /\ LastBlocks[n].size = match_min_size =>
                RawText(LastBlocks[n]) \in Range(result)

\* C6 witness: a block of exactly match_min_size characters that trimming
\* shortens and the filter then drops
C6_Witness ==
  /\ MatchingStepDone
  /\ match_min_size >= 1
  /\ end_characters # <<>>
  /\ \E n \in 1..Len(LastBlocks) :
       /\ LastBlocks[n].size = match_min_size
       /\ Len(Trimmed(LastBlocks[n])) < match_min_size
       /\ Trimmed(LastBlocks[n]) \notin Range(result)

\* What trimming is to return for a non-empty text: the text from its first
\* character that is no end character to its last end character after that,
\* and the text itself when there is no such first or no such last character.
SnappedText(text, end_chars) ==
  LET starts == {p \in 1..Len(text) : ~CharIn(text[p], end_chars)} IN
  IF starts = {} THEN text
  ELSE LET first == CHOOSE p \in starts : \A q \in starts : p <= q
           ends  == {p \in first..Len(text) : CharIn(text[p], end_chars)}
       IN  IF ends = {} THEN text
           ELSE SubSeq(text, first,
                       CHOOSE p \in ends : \A q \in ends : q <= p)

\* C7: with non-empty end_characters, the trimmed text of every non-empty
\* matching block is the block without its leading end characters and then
\* without its trailing other characters, or the whole block if that leaves
\* nothing: it is never empty, a block without any end character is
\* unchanged, and it is this text that the minimum size admits to the output.
C7_TrimFallsBackToBlock ==
  (MatchingStepDone /\ end_characters # <<>>) =>
    \A n \in 1..Len(LastBlocks) :
      LastBlocks[n].size > 0 =>
        LET text == RawText(LastBlocks[n])
            trimmed == TrimText(text, end_characters)
        IN  /\ trimmed # <<>>
            /\ trimmed = SnappedText(text, end_characters)
            /\ (\A p \in 1..Len(text) : ~CharIn(text[p], end_characters)) =>
                 trimmed = text
            /\ Len(trimmed) >= match_min_size => trimmed \in Range(result)

\* C7 witness: a block without any end character is in the output untrimmed
C7_Witness ==
  /\ MatchingStepDone
  /\ end_characters # <<>>
  /\ \E n \in 1..Len(LastBlocks) :
       /\ LastBlocks[n].size > 0
       /\ \A p \in 1..LastBlocks[n].size :
            ~CharIn(RawText(LastBlocks[n])[p], end_characters)
       /\ RawText(LastBlocks[n]) \in Range(result)

\* texts occur in s from offset start on, one after the other without overlap
RECURSIVE EmbedsFrom(_, _, _)
EmbedsFrom(texts, s, start) ==
  IF texts = <<>> THEN TRUE
  ELSE LET at == Find(s, Head(texts), start) IN
       /\ at # -1
       /\ EmbedsFrom(Tail(texts), s, at + Len(Head(texts)))

\* C8: after every step of get_matching_text the accumulator is the
\* concatenation of texts that occur in the previous accumulator one after
\* the other without overlap, so it is never longer than the previous one.
C8_AccumulatorShrinks ==
  MatchingStepDone =>
    /\ a = Join(result)
    /\ EmbedsFrom(result, prev_a, 0)
    /\ Len(a) <= Len(prev_a)

\* C8 witness: a third string cuts the result for the first two strings down
\* to two blocks
C8_Witness ==
  /\ MatchingStepDone
  /\ steps = 2
  /\ match_min_size >= 1
  /\ Len(result) = 2
  /\ Len(a) < Len(prev_a)

Scenario ==
  /\ string_list = ScenarioList
  /\ separator = <<"|">>
  /\ match_min_size = 1
  /\ ignore = <<>>
  /\ end_characters = DefaultEndCharacters
  /\ fn = "get_matching_then_nonmatching_text"

\* C9 as stated: the scenario returns "ABC-unique2|unique1".
C9_ScenarioAsStated ==
  (Scenario /\ pc = "done") =>
    ret = <<"A", "B", "C", "-", "u", "n", "i", "q", "u", "e", "2", "|",
            "u", "n", "i", "q", "u", "e", "1">>

\* C9 as amended: the scenario returns "ABC-unique|1|2": the one matching
\* block is "ABC-unique" (kept untrimmed, as it holds no end character), the
\* remainders "1" and "2" tie at position 10, so the remainder of a comes
\* first, and the separator is inserted before each remainder.
C9_ScenarioResult ==
  (Scenario /\ pc = "done") =>
    /\ result = << <<"A", "B", "C", "-", "u", "n", "i", "q", "u", "e">> >>
    /\ new_a = <<"1">> /\ new_b = <<"2">>
    /\ pos_a = 10 /\ pos_b = 10
    /\ ret = <<"A", "B", "C", "-", "u", "n", "i", "q", "u", "e", "|", "1",
               "|", "2">>

\* C9 witness: the scenario's call has returned after its one step
C9_Witness == Scenario /\ pc = "done" /\ steps = 1

\* C10: for a list of one string both functions return that string
\* unchanged, whatever the other arguments are, and run no pairwise step.
C10_SingleStringReturned ==
  (Len(string_list) = 1 /\ pc = "done") =>
    /\ ret = string_list[1]
    /\ steps = 0
    /\ result = <<>>
    /\ output = EmptyOutput

\* C10 witness: a single string, shorter than match_min_size, is returned
C10_Witness ==
  /\ fn = "get_matching_then_nonmatching_text"
  /\ pc = "done"
  /\ Len(string_list) = 1
  /\ string_list[1] = <<"x", ".", "x">>
  /\ separator # <<>>
  /\ end_characters # <<>>
  /\ match_min_size = MaxMinSize
  /\ ret = string_list[1]

\* s with only the first occurrence of old taken out
ReplaceFirst(s, old) ==
  LET at == Find(s, old, 0) IN
  IF old = <<>> \/ at = -1 THEN s
  ELSE Slice(s, 0, at) \o Slice(s, at + Len(old), Len(s))

\* s with, for each matching text in turn, its first occurrence taken out
RECURSIVE RemoveFirsts(_, _)
RemoveFirsts(s, texts) ==
  IF texts = <<>> THEN s
  ELSE RemoveFirsts(ReplaceFirst(s, Head(texts)), Tail(texts))

\* C11: in every merging step the remainder new_a is the accumulator with,
\* for each matching text, only the first occurrence of that text removed,
\* and new_b is b with the same removed: a later repeated occurrence of a
\* matching text stays in the remainder.
C11_OnlyFirstOccurrenceRemoved ==
  MergingStepDone =>
    /\ new_a = RemoveFirsts(prev_a, result)
    /\ new_b = RemoveFirsts(b, result)

====
